---- MODULE Spec2Model ----
(***************************************************************************)
(* State-machine model of expo-atlas' file source                          *)
(* (packages/expo-atlas/src/data/AtlasFileSource.ts and its caller         *)
(* metro.ts): the append log, the process-wide write queue, the stats      *)
(* accumulator and the stats finalizer.                                    *)
(*                                                                         *)
(* A JavaScript string is a sequence of one-character strings, a plain     *)
(* object or a Map is the sequence of its [key, value] entries in          *)
(* insertion order, and a promise is the state of the operation that       *)
(* settles it.                                                             *)
(***************************************************************************)
EXTENDS Integers, Sequences, FiniteSets, TLC

\* ------------------------------------------------------------------------
\* Bounds of the model
\* ------------------------------------------------------------------------
MaxOps == 3          \* operations ever chained on the write queue
MaxCreates == 1      \* createAtlasFile / ensureAtlasFileExist calls
MaxModules == 2      \* entries of bundle.modules
MaxRuntimeModules == 1 \* entries of bundle.runtimeModules
MaxAppends == 2      \* appends of the append/list specification
MaxDrains == 1       \* waitUntilAtlasFileReady calls
MaxReads == 1        \* getBundle / readAtlasEntry calls

\* ------------------------------------------------------------------------
\* JavaScript strings
\* ------------------------------------------------------------------------
\* The absent value of an optional string (module.package, statsFilePath).
Undefined == <<"<undefined>">>

\* UTF-16 code units of the characters the model uses.
CodeUnit ==
  ("\"" :> 34) @@ ("," :> 44) @@ ("-" :> 45) @@ ("." :> 46) @@ ("/" :> 47) @@
  (" " :> 32) @@
  ("0" :> 48) @@ ("1" :> 49) @@ ("2" :> 50) @@ ("3" :> 51) @@ ("5" :> 53) @@
  ("B" :> 66) @@ ("G" :> 71) @@ ("I" :> 73) @@ ("F" :> 70) @@
  ("[" :> 91) @@ ("\\" :> 92) @@
  ("a" :> 97) @@ ("b" :> 98) @@ ("c" :> 99) @@ ("d" :> 100) @@ ("e" :> 101) @@
  ("f" :> 102) @@ ("g" :> 103) @@ ("i" :> 105) @@ ("j" :> 106) @@ ("l" :> 108) @@
  ("n" :> 110) @@ ("o" :> 111) @@ ("p" :> 112) @@ ("r" :> 114) @@ ("s" :> 115) @@
  ("t" :> 116) @@ ("w" :> 119) @@ ("x" :> 120)

\* String.prototype.toLowerCase, character by character.
LowerChar(c) ==
  CASE c = "B" -> "b" [] c = "G" -> "g" [] c = "I" -> "i" [] c = "F" -> "f"
    [] OTHER -> c

ToLowerCase(s) == [i \in 1..Len(s) |-> LowerChar(s[i])]

\* a < b for strings compared by UTF-16 code units (Array.prototype.sort's
\* default order, and the order of the < operator on strings).
RECURSIVE StrLess(_, _)
StrLess(a, b) ==
  IF b = <<>> THEN FALSE
  ELSE IF a = <<>> THEN TRUE
  ELSE IF CodeUnit[Head(a)] # CodeUnit[Head(b)]
       THEN CodeUnit[Head(a)] < CodeUnit[Head(b)]
       ELSE StrLess(Tail(a), Tail(b))

\* String.prototype.split(sep) for a one-character separator.
RECURSIVE SplitFrom(_, _, _)
SplitFrom(s, sep, cur) ==
  IF s = <<>> THEN <<cur>>
  ELSE IF Head(s) = sep THEN <<cur>> \o SplitFrom(Tail(s), sep, <<>>)
       ELSE SplitFrom(Tail(s), sep, Append(cur, Head(s)))

Split(s, sep) == SplitFrom(s, sep, <<>>)

\* JavaScript truthiness of an optional string.
Truthy(s) == s # Undefined /\ s # <<>>

\* ------------------------------------------------------------------------
\* Plain objects and Maps: entries in insertion order
\* ------------------------------------------------------------------------
ObjKeys(o) == [i \in 1..Len(o) |-> o[i].key]
ObjValues(o) == [i \in 1..Len(o) |-> o[i].value]
ObjHas(o, k) == \E i \in 1..Len(o) : o[i].key = k
ObjGet(o, k) == o[CHOOSE i \in 1..Len(o) : o[i].key = k].value

\* A property key that is a canonical array index: decimal digits without a
\* leading zero.
IsArrayIndex(k) ==
  /\ k # <<>>
  /\ \A i \in 1..Len(k) : k[i] \in DOMAIN CodeUnit /\ CodeUnit[k[i]] \in 48..57
  /\ (k[1] = "0" => Len(k) = 1)

RECURSIVE ToNumber(_)
ToNumber(k) ==
  IF k = <<>> THEN 0
  ELSE 10 * ToNumber(SubSeq(k, 1, Len(k) - 1)) + (CodeUnit[k[Len(k)]] - 48)

\* ------------------------------------------------------------------------
\* Numbers read from strings
\* ------------------------------------------------------------------------
\* A JavaScript number: NaN, or the integer part `whole` of a decimal and
\* whether a non-zero fraction follows it.
NaN == [nan |-> TRUE, whole |-> 0, frac |-> FALSE]
Num(n) == [nan |-> FALSE, whole |-> n, frac |-> FALSE]

IsDigitChar(c) == c \in DOMAIN CodeUnit /\ CodeUnit[c] \in 48..57

RECURSIVE TrimStart(_)
TrimStart(s) == IF s # <<>> /\ Head(s) = " " THEN TrimStart(Tail(s)) ELSE s

RECURSIVE TrimEnd(_)
TrimEnd(s) ==
  IF s # <<>> /\ s[Len(s)] = " " THEN TrimEnd(SubSeq(s, 1, Len(s) - 1)) ELSE s

\* The length of the longest prefix of s made of decimal digits.
RECURSIVE DigitsPrefix(_)
DigitsPrefix(s) ==
  IF s # <<>> /\ IsDigitChar(Head(s)) THEN 1 + DigitsPrefix(Tail(s)) ELSE 0

\* parseInt(s, 10): leading white space is skipped, then a sign, then the
\* longest run of digits is read and whatever follows it is ignored.
parseInt(s) ==
  LET t == TrimStart(s)
      negative == t # <<>> /\ Head(t) = "-"
      u == IF negative THEN Tail(t) ELSE t
      n == DigitsPrefix(u)
  IN  IF n = 0 THEN NaN
      ELSE Num((IF negative THEN -1 ELSE 1) * ToNumber(SubSeq(u, 1, n)))

\* Number(s) for strings of digits, ".", "-", white space and letters: the
\* whole trimmed string must be a decimal literal; the empty string is 0.
Number(s) ==
  LET t == TrimEnd(TrimStart(s))
      negative == t # <<>> /\ Head(t) = "-"
      u == IF negative THEN Tail(t) ELSE t
      n == DigitsPrefix(u)
      after == SubSeq(u, n + 1, Len(u))
      fraction == IF after = <<>> THEN <<>> ELSE Tail(after)
      whole == (IF negative THEN -1 ELSE 1) * ToNumber(SubSeq(u, 1, n))
  IN  IF t = <<>> THEN Num(0)
      ELSE IF after = <<>> THEN (IF n = 0 THEN NaN ELSE Num(whole))
      ELSE IF /\ Head(after) = "."
              /\ \A k \in 1..Len(fraction) : IsDigitChar(fraction[k])
              /\ (n > 0 \/ fraction # <<>>)
           THEN [nan |-> FALSE, whole |-> whole,
                 frac |-> \E k \in 1..Len(fraction) : fraction[k] # "0"]
      ELSE NaN

\* The number is an integer greater than 1.
IsLineNumber(number) == ~number.nan /\ ~number.frac /\ number.whole > 1

\* o[k] = v on a plain object: an existing key keeps its place; a new
\* array index goes among the array indices, which come first in ascending
\* numeric order; any other new key goes last.
ObjSet(o, k, v) ==
  IF ObjHas(o, k)
  THEN [i \in 1..Len(o) |-> IF o[i].key = k THEN [key |-> k, value |-> v] ELSE o[i]]
  ELSE IF IsArrayIndex(k)
  THEN LET at == Cardinality({i \in 1..Len(o) :
                    IsArrayIndex(o[i].key) /\ ToNumber(o[i].key) < ToNumber(k)})
       IN  SubSeq(o, 1, at) \o <<[key |-> k, value |-> v]>> \o SubSeq(o, at + 1, Len(o))
  ELSE Append(o, [key |-> k, value |-> v])

MapSetAppend(m, k, v) == Append(m, [key |-> k, value |-> v])

\* Map.prototype.set(k, v): the value of an existing key is replaced, a new
\* key goes last.
MapSet(m, k, v) ==
  IF ObjHas(m, k)
  THEN [i \in 1..Len(m) |-> IF m[i].key = k THEN [key |-> k, value |-> v] ELSE m[i]]
  ELSE Append(m, [key |-> k, value |-> v])

RECURSIVE SumSeq(_)
SumSeq(s) == IF s = <<>> THEN 0 ELSE Head(s) + SumSeq(Tail(s))

\* ------------------------------------------------------------------------
\* Stats conversion
\* ------------------------------------------------------------------------
ASSET_EXTENSIONS ==
  { <<"p","n","g">>, <<"j","p","g">>, <<"j","p","e","g">>, <<"g","i","f">>,
    <<"s","v","g">>, <<"w","e","b","p">>, <<"b","m","p">>, <<"t","t","f">>,
    <<"o","t","f">>, <<"w","o","f","f">>, <<"w","o","f","f","2">>,
    <<"m","p","4">>, <<"w","e","b","m">>, <<"m","p","3">>, <<"w","a","v">> }

isAsset(filePath) ==
  LET parts == Split(filePath, ".")
      ext == ToLowerCase(parts[Len(parts)])
  IN  IF ext # <<>> THEN ext \in ASSET_EXTENSIONS ELSE FALSE

\* The three maps convertBundleToStats fills.
EmptyTally == [packages |-> <<>>, files |-> <<>>, assets |-> <<>>]

addModuleSizeOverlap(t, module) ==
  IF Truthy(module.package)
  THEN [t EXCEPT !.packages =
          ObjSet(@, module.package,
                 (IF ObjHas(@, module.package) THEN ObjGet(@, module.package) ELSE 0)
                   + module.size)]
  ELSE IF isAsset(module.relativePath)
       THEN [t EXCEPT !.assets = ObjSet(@, module.relativePath, module.size),
                      !.files = ObjSet(@, module.relativePath, module.size)]
       ELSE [t EXCEPT !.files = ObjSet(@, module.relativePath, module.size)]

addModuleSizeNoSum(t, module) ==
  IF Truthy(module.package)
  THEN [t EXCEPT !.packages = ObjSet(@, module.package, module.size)]
  ELSE IF isAsset(module.relativePath)
       THEN [t EXCEPT !.assets = ObjSet(@, module.relativePath, module.size)]
       ELSE [t EXCEPT !.files = ObjSet(@, module.relativePath, module.size)]

addModuleSize(t, module) ==
  IF Truthy(module.package)
  THEN [t EXCEPT !.packages =
          ObjSet(@, module.package,
                 (IF ObjHas(@, module.package) THEN ObjGet(@, module.package) ELSE 0)
                   + module.size)]
  ELSE IF isAsset(module.relativePath)
       THEN [t EXCEPT !.assets = ObjSet(@, module.relativePath, module.size)]
       ELSE [t EXCEPT !.files = ObjSet(@, module.relativePath, module.size)]

RECURSIVE addAll(_, _)
addAll(t, mods) ==
  IF mods = <<>> THEN t ELSE addAll(addModuleSize(t, Head(mods)), Tail(mods))

\* Array.prototype.sort() of distinct keys, in code-unit order.
RECURSIVE SortKeys(_)
SortKeys(keys) ==
  IF keys = <<>> THEN <<>>
  ELSE LET i == CHOOSE i \in 1..Len(keys) :
                  \A j \in 1..Len(keys) : j = i \/ StrLess(keys[i], keys[j])
           rest == [j \in 1..(Len(keys) - 1) |-> IF j < i THEN keys[j] ELSE keys[j + 1]]
       IN  <<keys[i]>> \o SortKeys(rest)

\* for (const key of keys) sorted[key] = record[key]
RECURSIVE assignKeys(_, _, _)
assignKeys(sorted, keys, record) ==
  IF keys = <<>> THEN sorted
  ELSE assignKeys(ObjSet(sorted, Head(keys), ObjGet(record, Head(keys))), Tail(keys), record)

sortRecordUnsorted(record) == record

sortRecord(record) == assignKeys(<<>>, SortKeys(ObjKeys(record)), record)

convertBundleToStats(bundle) ==
  LET t == addAll(addAll(EmptyTally, ObjValues(bundle.modules)), bundle.runtimeModules)
      bundleSize == SumSeq(ObjValues(t.packages)) + SumSeq(ObjValues(t.files))
                      + SumSeq(ObjValues(t.assets))
  IN  [platform |-> bundle.platform,
       environment |-> bundle.environment,
       entryPoint |-> bundle.entryPoint,
       bundleSize |-> bundleSize,
       packages |-> sortRecord(t.packages),
       files |-> sortRecord(t.files),
       assets |-> sortRecord(t.assets)]

\* ------------------------------------------------------------------------
\* Line encoding of the log
\* ------------------------------------------------------------------------
QUOTE == "\""
BACKSLASH == "\\"

\* JSON text of a string: quoted, with quotes and backslashes escaped.
RECURSIVE JsonEscape(_)
JsonEscape(s) ==
  IF s = <<>> THEN <<>>
  ELSE (IF Head(s) = QUOTE \/ Head(s) = BACKSLASH
        THEN <<BACKSLASH, Head(s)>> ELSE <<Head(s)>>) \o JsonEscape(Tail(s))

JsonString(s) == <<QUOTE>> \o JsonEscape(s) \o <<QUOTE>>

\* The metadata of this library version, and of an earlier one.
getAtlasMetdata == [name |-> "expo-atlas", version |-> "current"]
OlderMetadata == [name |-> "expo-atlas", version |-> "older"]
OtherMetadata == [name |-> "other", version |-> "current"]

\* Line 1 of a log as appendJsonLine(filePath, metadata) writes it.
MetadataLine(metadata) ==
  [type |-> "metadata", text |-> <<"{">>, name |-> metadata.name,
   version |-> metadata.version, runtimeModules |-> <<>>, modules |-> <<>>,
   transformOptions |-> "", serializeOptions |-> ""]

\* The value JSON.parse returns for the JSON text of a module: a property
\* whose value is undefined is left out of the text.
JsonModule(module) ==
  IF module.package = Undefined
  THEN [absolutePath |-> module.absolutePath, relativePath |-> module.relativePath,
        size |-> module.size]
  ELSE module

JsonModules(mods) == [k \in 1..Len(mods) |-> JsonModule(mods[k])]

\* object[key], undefined when the object has no such property.
Prop(object, key) == IF key \in DOMAIN object THEN object[key] ELSE Undefined

\* The line writeAtlasEntry builds: `text` is the JSON text of the five
\* leading strings, the other elements are the values their JSON text
\* parses to.
AtlasEntryLine(entry) ==
  [type |-> "bundle",
   text |-> <<"[">> \o JsonString(entry.platform) \o <<",">>
              \o JsonString(entry.projectRoot) \o <<",">>
              \o JsonString(entry.sharedRoot) \o <<",">>
              \o JsonString(entry.entryPoint) \o <<",">>
              \o JsonString(entry.environment),
   name |-> "", version |-> "",
   runtimeModules |-> JsonModules(entry.runtimeModules),
   modules |-> JsonModules(ObjValues(entry.modules)),
   transformOptions |-> entry.transformOptions,
   serializeOptions |-> entry.serializeOptions]

\* JSON.parse of the text of a string, the opening quote at position i - 1:
\* the characters up to the closing quote, a backslash standing for the
\* character after it, and the position after the closing quote (0 when
\* the text ends before it).
RECURSIVE JsonParseString(_, _)
JsonParseString(s, i) ==
  IF i > Len(s) THEN [value |-> <<>>, next |-> 0]
  ELSE IF s[i] = QUOTE THEN [value |-> <<>>, next |-> i + 1]
  ELSE LET escaped == s[i] = BACKSLASH /\ i < Len(s)
           rest == JsonParseString(s, IF escaped THEN i + 2 ELSE i + 1)
       IN  [value |-> <<IF escaped THEN s[i + 1] ELSE s[i]>> \o rest.value,
            next |-> rest.next]

\* The strings k..5 of the text of a line, the opening quote of string k
\* expected at position i; <<>> when the text does not parse.
RECURSIVE JsonParseStrings(_, _, _)
JsonParseStrings(s, i, k) ==
  IF i > Len(s) \/ s[i] # QUOTE THEN <<>>
  ELSE LET str == JsonParseString(s, i + 1)
       IN  IF str.next = 0 THEN <<>>
           ELSE IF k = 5 THEN <<str.value>>
           ELSE IF str.next > Len(s) \/ s[str.next] # "," THEN <<>>
           ELSE LET rest == JsonParseStrings(s, str.next + 1, k + 1)
                IN  IF rest = <<>> THEN <<>> ELSE <<str.value>> \o rest

\* The end of the longest run of characters other than a quote that starts
\* at position i of s (i - 1 when the run is empty).
RECURSIVE RunEnd(_, _)
RunEnd(s, i) ==
  IF i > Len(s) \/ s[i] = QUOTE THEN i - 1 ELSE RunEnd(s, i + 1)

\* Groups k..5 of /^\["([^"]+)","([^"]+)","([^"]+)","([^"]+)","([^"]+)"/,
\* the opening quote of group k expected at position i; <<>> on no match.
RECURSIVE MatchGroups(_, _, _)
MatchGroups(s, i, k) ==
  IF i > Len(s) \/ s[i] # QUOTE THEN <<>>
  ELSE LET j == RunEnd(s, i + 1)
           group == SubSeq(s, i + 1, j)
       IN  IF j < i + 1 \/ j + 1 > Len(s) \/ s[j + 1] # QUOTE THEN <<>>
           ELSE IF k = 5 THEN <<group>>
           ELSE IF j + 2 > Len(s) \/ s[j + 2] # "," THEN <<>>
           ELSE LET rest == MatchGroups(s, j + 3, k + 1)
                IN  IF rest = <<>> THEN <<>> ELSE <<group>> \o rest

bundlePattern(contents) ==
  IF contents # <<>> /\ contents[1] = "[" THEN MatchGroups(contents, 2, 1) ELSE <<>>

\* String(n) for a line number.
Digit == <<"0", "1", "2", "3", "4", "5", "6", "7", "8", "9">>

RECURSIVE String(_)
String(n) == IF n < 10 THEN <<Digit[n + 1]>> ELSE String(n \div 10) \o <<Digit[(n % 10) + 1]>>

\* listAtlasEntries over the lines of a file: the entries it pushes.
RECURSIVE listFrom(_, _)
listFrom(lines, line) ==
  IF line > Len(lines) THEN <<>>
  ELSE LET m == bundlePattern(lines[line].text)
       IN  (IF line # 1 /\ m # <<>>
            THEN << [id |-> String(line), platform |-> m[1], environment |-> m[5],
                     projectRoot |-> m[2], sharedRoot |-> m[3], entryPoint |-> m[4]] >>
            ELSE <<>>) \o listFrom(lines, line + 1)

listAtlasEntries(lines) == listFrom(lines, 1)

\* ------------------------------------------------------------------------
\* Ordering of the report
\* ------------------------------------------------------------------------
IsLetter(c) == CodeUnit[LowerChar(c)] >= 97 /\ CodeUnit[LowerChar(c)] <= 122
IsDigit(c) == CodeUnit[c] >= 48 /\ CodeUnit[c] <= 57

\* Primary collation weight of a character: punctuation, then digits, then
\* letters without regard to case.
PrimaryWeight(c) ==
  IF IsLetter(c) THEN 200 + CodeUnit[LowerChar(c)]
  ELSE IF IsDigit(c) THEN 100 + CodeUnit[c]
  ELSE CASE c = "-" -> 1 [] c = "," -> 2 [] c = "." -> 3 [] c = QUOTE -> 4
         [] c = "[" -> 5 [] c = "/" -> 6 [] c = BACKSLASH -> 7 [] OTHER -> 8

\* Case weight: lower case sorts before upper case.
CaseWeight(c) == IF LowerChar(c) # c THEN 1 ELSE 0

\* The weight of a character at a level of the comparison.
Weight(level, c) == IF level = "primary" THEN PrimaryWeight(c) ELSE CaseWeight(c)

RECURSIVE CompareBy(_, _, _)
CompareBy(level, a, b) ==
  IF a = <<>> /\ b = <<>> THEN 0
  ELSE IF a = <<>> THEN -1
  ELSE IF b = <<>> THEN 1
  ELSE IF Weight(level, Head(a)) < Weight(level, Head(b)) THEN -1
  ELSE IF Weight(level, Head(a)) > Weight(level, Head(b)) THEN 1
  ELSE CompareBy(level, Tail(a), Tail(b))

\* String.prototype.localeCompare: primary weights decide, case breaks ties.
localeCompare(a, b) ==
  LET primary == CompareBy("primary", a, b)
  IN  IF primary # 0 THEN primary ELSE CompareBy("case", a, b)

\* The comparator finalizeAtlasStats sorts with.
compareBundles(a, b) ==
  IF a.platform # b.platform THEN localeCompare(a.platform, b.platform)
  ELSE IF a.environment # b.environment THEN localeCompare(a.environment, b.environment)
  ELSE localeCompare(a.entryPoint, b.entryPoint)

sortBundlesNone(bundles) == bundles

\* Array.prototype.sort(compare): a stable sort.
RECURSIVE sortBundles(_)
sortBundles(bundles) ==
  IF bundles = <<>> THEN <<>>
  ELSE LET n == Len(bundles)
           x == bundles[n]
           sorted == sortBundles(SubSeq(bundles, 1, n - 1))
           at == Cardinality({i \in 1..Len(sorted) : compareBundles(sorted[i], x) <= 0})
       IN  SubSeq(sorted, 1, at) \o <<x>> \o SubSeq(sorted, at + 1, Len(sorted))

\* ------------------------------------------------------------------------
\* Paths
\* ------------------------------------------------------------------------
\* A path is a directory and the characters of the name of a file in it.
NoPath == [root |-> "", name |-> <<>>]

AtlasJsonl == <<"a", "t", "l", "a", "s", ".", "j", "s", "o", "n", "l">>
AtlasStatsJson ==
  <<"a", "t", "l", "a", "s", "-", "s", "t", "a", "t", "s", ".", "j", "s", "o", "n">>

getAtlasPath(projectRoot) == [root |-> projectRoot, name |-> AtlasJsonl]
getAtlasStatsPath(projectRoot) == [root |-> projectRoot, name |-> AtlasStatsJson]

EndsWith(s, suffix) ==
  Len(s) >= Len(suffix) /\ SubSeq(s, Len(s) - Len(suffix) + 1, Len(s)) = suffix

\* filePath.replace(/atlas\.jsonl$/, 'atlas-stats.json')
statsPathOf(filePath) ==
  IF EndsWith(filePath.name, AtlasJsonl)
  THEN [filePath EXCEPT
          !.name = SubSeq(@, 1, Len(@) - Len(AtlasJsonl)) \o AtlasStatsJson]
  ELSE filePath

ProjectRoots == {"p", "q"}
LogPaths == {getAtlasPath(r) : r \in ProjectRoots}
\* The log the accumulations name, and the one log of the append/list
\* specification.
LogPath == getAtlasPath("p")

\* Logs named by the atlasFile option of withExpoAtlas: one whose name ends
\* in atlas.jsonl and one whose name does not.
CustomPaths ==
  { [root |-> "p", name |-> <<"m", "y", "-">> \o AtlasJsonl],
    [root |-> "p", name |-> <<"a", "t", "l", "a", "s", ".", "j", "s", "o", "n">>] }

AllPaths ==
  LogPaths \cup CustomPaths \cup {statsPathOf(p) : p \in LogPaths \cup CustomPaths}

\* A path that holds no file.
NoFile == <<[type |-> "absent"]>>

\* The report document JSON.stringify(bundles, null, 2) + '\n' holds.
ReportFile(bundles) == <<[type |-> "report", bundles |-> bundles]>>

\* ------------------------------------------------------------------------
\* Reading an entry of the log
\* ------------------------------------------------------------------------
\* parseJsonLine(filePath, line): the parsed line, or the failure.
parseJsonLine(file, line) ==
  IF file = NoFile \/ line \notin 1..Len(file) THEN [error |-> "LineNotFound"]
  ELSE IF file[line].type = "metadata"
  THEN [error |-> "none", array |-> FALSE, strings |-> <<>>, values |-> file[line]]
  ELSE LET strings == JsonParseStrings(file[line].text, 2, 1)
       IN  IF strings = <<>> THEN [error |-> "SyntaxError"]
           ELSE [error |-> "none", array |-> TRUE, strings |-> strings,
                 values |-> file[line]]

\* new Map(modules.map((module) => [module.absolutePath, module]))
RECURSIVE modulesMap(_, _)
modulesMap(map, modules) ==
  IF modules = <<>> THEN map
  ELSE modulesMap(MapSet(map, Head(modules).absolutePath, Head(modules)), Tail(modules))

modulesMapByRelativePath(id, atlasEntry) ==
  [id |-> String(id),
   platform |-> atlasEntry.strings[1],
   projectRoot |-> atlasEntry.strings[2],
   sharedRoot |-> atlasEntry.strings[3],
   entryPoint |-> atlasEntry.strings[4],
   environment |-> atlasEntry.strings[5],
   runtimeModules |-> atlasEntry.values.runtimeModules,
   modules |-> [k \in 1..Len(atlasEntry.values.modules) |->
                  [key |-> atlasEntry.values.modules[k].relativePath,
                   value |-> atlasEntry.values.modules[k]]],
   transformOptions |-> atlasEntry.values.transformOptions,
   serializeOptions |-> atlasEntry.values.serializeOptions]

\* The bundle readAtlasEntry builds from the parsed line.
atlasBundleOf(id, atlasEntry) ==
  [id |-> String(id),
   platform |-> atlasEntry.strings[1],
   projectRoot |-> atlasEntry.strings[2],
   sharedRoot |-> atlasEntry.strings[3],
   entryPoint |-> atlasEntry.strings[4],
   environment |-> atlasEntry.strings[5],
   runtimeModules |-> atlasEntry.values.runtimeModules,
   modules |-> modulesMap(<<>>, atlasEntry.values.modules),
   transformOptions |-> atlasEntry.values.transformOptions,
   serializeOptions |-> atlasEntry.values.serializeOptions]

\* readAtlasEntry(filePath, id) on a file: the bundle, or the failure; the
\* metadata record has no element 6 to map over.
readAtlasEntry(file, id) ==
  LET atlasEntry == parseJsonLine(file, id)
  IN  IF atlasEntry.error # "none" THEN [error |-> atlasEntry.error]
      ELSE IF ~atlasEntry.array THEN [error |-> "TypeError"]
      ELSE [error |-> "none", bundle |-> atlasBundleOf(id, atlasEntry)]

\* ------------------------------------------------------------------------
\* Bundles handed over by the graph conversion
\* ------------------------------------------------------------------------
Ios == <<"i", "o", "s">>
Android == <<"a", "n", "d", "r", "o", "i", "d">>
Client == <<"c", "l", "i", "e", "n", "t">>
Node == <<"n", "o", "d", "e">>
RootDir == <<"/", "p">>

AppJs == <<"a", ".", "j", "s">>
LogoPng == <<"b", ".", "p", "n", "g">>
React == <<"r">>
LibJs == <<"x", ".", "j", "s">>

AtlasModule(relativePath, package, size) ==
  [absolutePath |-> <<"/">> \o relativePath, relativePath |-> relativePath,
   size |-> size, package |-> package]

\* A Map of modules keyed by absolute path, each module in a directory of
\* its own so that the keys are unique.
ModulesMap(mods) ==
  [i \in 1..Len(mods) |->
     LET path == <<"/">> \o String(i) \o mods[i].absolutePath
     IN  [key |-> path, value |-> [mods[i] EXCEPT !.absolutePath = path]]]

AtlasBundle(id, platform, sharedRoot, entryPoint, mods, runtimeModules) ==
  [id |-> id, platform |-> platform, environment |-> Client,
   projectRoot |-> RootDir, sharedRoot |-> sharedRoot, entryPoint |-> entryPoint,
   runtimeModules |-> runtimeModules, modules |-> ModulesMap(mods),
   transformOptions |-> "{}", serializeOptions |-> "{}"]

\* The bundles of the queue specification: two share the id "1".
Bundles ==
  { AtlasBundle(<<"1">>, Ios, RootDir, <<"/", "a">>,
                <<AtlasModule(AppJs, Undefined, 1)>>, <<>>),
    AtlasBundle(<<"1">>, Ios, RootDir, <<"/", "a">>,
                <<AtlasModule(AppJs, Undefined, 2), AtlasModule(LibJs, React, 1)>>, <<>>),
    AtlasBundle(<<"2">>, Android, RootDir, <<"/", "b">>,
                <<AtlasModule(LibJs, React, 2)>>, <<AtlasModule(LibJs, React, 1)>>) }

\* The bundles the queue specification appends.
AppendBundles == {b \in Bundles : Len(b.modules) = 1}

\* The modules of the conversion specification: first-party sources and
\* assets, and modules owned by a package, one of them named like a source.
ModuleShapes ==
  {AtlasModule(AppJs, Undefined, size) : size \in 1..2}
    \cup {AtlasModule(LibJs, React, size) : size \in 1..2}
    \cup {AtlasModule(LogoPng, Undefined, 1), AtlasModule(LibJs, AppJs, 1)}

SeqsUpTo(S, n) == UNION {[1..k -> S] : k \in 0..n}

\* The modules of the key-order specification: packages, two of them named
\* by a number, an upper-case and a lower-case source, an asset.
BJs == <<"B", ".", "j", "s">>
Ten == <<"1", "0">>
Two == <<"2">>

KeyShapes ==
  {AtlasModule(LibJs, pkg, 1) : pkg \in {Ten, Two, React}}
    \cup {AtlasModule(rel, Undefined, 1) : rel \in {BJs, AppJs, LogoPng}}

KeyBundles ==
  { AtlasBundle(<<"1">>, Ios, RootDir, <<"/", "a">>, mods, runtime) :
      mods \in SeqsUpTo(KeyShapes, MaxModules),
      runtime \in SeqsUpTo(KeyShapes, MaxRuntimeModules) }

ConvBundles ==
  { AtlasBundle(<<"1">>, Ios, RootDir, <<"/", "a">>, mods, runtime) :
      mods \in SeqsUpTo(ModuleShapes, MaxModules),
      runtime \in SeqsUpTo(ModuleShapes, MaxRuntimeModules) }

\* The bundles of the append/list specification: the shared root may be
\* empty, the entry point may hold a quote or a backslash.
LogBundles ==
  { AtlasBundle(<<"1">>, Ios, sharedRoot, entryPoint, <<>>, <<>>) :
      sharedRoot \in {RootDir, <<>>},
      entryPoint \in {<<"/", "a">>, <<"a", QUOTE, "b">>, <<"c", BACKSLASH, "a">>} }

\* The bundles of the report specification: every platform, environment and
\* entry point under either id, the bundles of id "2" being larger.
SortBundles ==
  { [AtlasBundle(id, platform, RootDir, entryPoint,
                 <<AtlasModule(AppJs, Undefined, ToNumber(id))>>, <<>>)
       EXCEPT !.environment = environment] :
      id \in {<<"1">>, <<"2">>}, platform \in {Ios, Android},
      environment \in {Client, Node}, entryPoint \in {<<"/", "a">>, <<"/", "B">>} }

\* The bundles of the reading specification: one with a quote in its entry
\* point, modules with and without a package and a runtime module; one
\* with an empty shared root, a backslash in its entry point and no module;
\* one whose module is stored under a key that is not its absolute path.
ReadBundles ==
  { AtlasBundle(<<"1">>, Ios, RootDir, <<"a", QUOTE, "b">>,
                <<AtlasModule(AppJs, Undefined, 1), AtlasModule(LibJs, React, 2)>>,
                <<AtlasModule(LibJs, React, 1)>>),
    AtlasBundle(<<"2">>, Android, <<>>, <<"c", BACKSLASH, "a">>, <<>>, <<>>),
    [AtlasBundle(<<"1">>, Ios, RootDir, <<"/", "a">>,
                 <<AtlasModule(AppJs, Undefined, 1)>>, <<>>)
       EXCEPT !.modules[1].key = <<"/", "k">>] }

\* The ids getBundle is called with: line numbers, numbers that are not
\* line numbers, and strings that are not numbers.
IdStrings ==
  { <<"0">>, <<"1">>, <<"2">>, <<"3">>, <<"1", "0">>, <<"0", "2">>,
    <<"-", "2">>, <<>>, <<" ", "2">>, <<"2", " ">>,
    <<"1", ".", "5">>, <<"2", ".", "0">>, <<"2", ".", "5">>,
    <<"a">>, <<"a", "2">>, <<"2", "a">> }

BundleIds == {<<"1">>, <<"2">>}
NoBundle == [id |-> Undefined]

\* ------------------------------------------------------------------------
\* State
\* ------------------------------------------------------------------------
VARIABLES
  writeQueue,            \* the promise chain: every operation ever chained, in order
  statsAccumulator,      \* Map from bundle id to stats bundle
  statsFilePath,         \* path of the last accumulation, NoPath before
  finalizationScheduled, \* whether the exit listener counts as armed
  exitListeners,         \* 'beforeExit' listeners registered and not yet run
  fs,                    \* the files: path -> lines, or NoFile
  calls,                 \* createAtlasFile / ensureAtlasFileExist calls
  accumulated,           \* history: id -> last bundle accumulated since the last clear
  replaced,              \* history: ids whose bundle replaced another since the last clear
  started,               \* history: queue positions in the order their bodies began
  listed,                \* result of the last listBundles call
  exitHandlers,          \* the runs of the 'beforeExit' listener
  drained,               \* history: queue lengths at the waitUntilAtlasFileReady calls
  reads,                 \* the getBundle / readAtlasEntry calls
  accumulatedPath        \* history: id -> path of its last accumulation since the last clear

vars == <<writeQueue, statsAccumulator, statsFilePath, finalizationScheduled,
          exitListeners, fs, calls, accumulated, replaced, started, listed,
          exitHandlers, drained, reads, accumulatedPath>>

NoLine == [type |-> "none"]
NoPaths == [id \in BundleIds |-> NoPath]

\* One link of the chain. `line` is the line of an append, `bundles` the
\* sorted bundles of a report write. History: `entry` is the bundle an
\* append was called with; `called` is the accumulator's values, and `last`
\* the last bundle accumulated under each id, when finalizeAtlasStats was
\* called, `again` the ids whose bundle had replaced another by then,
\* `paths` the path each id was last accumulated with, and `log` the path
\* finalizeAtlasStats was called with.
Operation(kind, path, line, entry, bundles, called, last, again) ==
  [kind |-> kind, path |-> path, line |-> line, entry |-> entry, bundles |-> bundles,
   called |-> called, last |-> last, again |-> again, paths |-> NoPaths,
   log |-> NoPath, st |-> "pending", err |-> 0]

NoHistory == [id \in BundleIds |-> NoBundle]

Settled(op) == op.st \in {"fulfilled", "rejected"}

\* appendJsonLine(filePath, line): the file is created when it is absent.
appendJsonLine(file, line) == IF file = NoFile THEN <<line>> ELSE Append(file, line)

FreshFile(metadata) == <<MetadataLine(metadata)>>

Init ==
  /\ writeQueue = <<>>
  /\ statsAccumulator = <<>>
  /\ statsFilePath = NoPath
  /\ finalizationScheduled = FALSE
  /\ exitListeners = 0
  /\ fs \in [AllPaths -> {NoFile, FreshFile(getAtlasMetdata), FreshFile(OlderMetadata)}]
  /\ \A p \in AllPaths \ LogPaths : fs[p] = NoFile
  /\ calls = <<>>
  /\ accumulated = NoHistory
  /\ replaced = {}
  /\ started = <<>>
  /\ listed = <<>>
  /\ exitHandlers = <<>>
  /\ drained = {}
  /\ reads = <<>>
  /\ accumulatedPath = NoPaths

\* ------------------------------------------------------------------------
\* The write queue
\* ------------------------------------------------------------------------
writeAtlasEntry(filePath, entry) ==
  /\ Len(writeQueue) < MaxOps
  /\ writeQueue' = Append(writeQueue,
       Operation("append", filePath, AtlasEntryLine(entry), entry, <<>>, <<>>, NoHistory, {}))
  /\ UNCHANGED <<statsAccumulator, statsFilePath, finalizationScheduled,
                 exitListeners, fs, calls, accumulated, replaced, started, listed,
                 exitHandlers, drained,
                 reads, accumulatedPath>>

\* The two links finalizeAtlasStats(filePath) chains on queue q.
finalizeLinks(q, filePath) ==
  q \o << [Operation("writeStats", statsPathOf(filePath), NoLine, NoBundle,
                     sortBundles(ObjValues(statsAccumulator)),
                     ObjValues(statsAccumulator), accumulated, replaced)
             EXCEPT !.paths = accumulatedPath, !.log = filePath],
          [Operation("clear", statsPathOf(filePath), NoLine, NoBundle,
                     <<>>, <<>>, NoHistory, {})
             EXCEPT !.log = filePath] >>

finalizeAtlasStats(filePath) ==
  /\ Len(writeQueue) + 2 <= MaxOps
  /\ writeQueue' = finalizeLinks(writeQueue, filePath)
  /\ UNCHANGED <<statsAccumulator, statsFilePath, finalizationScheduled,
                 exitListeners, fs, calls, accumulated, replaced, started, listed,
                 exitHandlers, drained,
                 reads, accumulatedPath>>

CanRunUnchained(i) ==
  /\ i \in 1..Len(writeQueue)
  /\ writeQueue[i].st = "pending"

CanRunAfterSettled(i) ==
  /\ i \in 1..Len(writeQueue)
  /\ writeQueue[i].st = "pending"
  /\ IF i = 1 THEN TRUE ELSE Settled(writeQueue[i - 1])

\* The reaction of link i runs once link i - 1 is fulfilled.
CanRun(i) ==
  /\ i \in 1..Len(writeQueue)
  /\ writeQueue[i].st = "pending"
  /\ IF i = 1 THEN TRUE ELSE writeQueue[i - 1].st = "fulfilled"

\* The body of an append or of a report write begins: its write is issued.
BeginWrite(i) ==
  /\ CanRun(i)
  /\ writeQueue[i].kind \in {"append", "writeStats"}
  /\ writeQueue' = [writeQueue EXCEPT ![i].st = "running"]
  /\ started' = Append(started, i)
  /\ UNCHANGED <<statsAccumulator, statsFilePath, finalizationScheduled,
                 exitListeners, fs, calls, accumulated, replaced, listed,
                 exitHandlers, drained,
                 reads, accumulatedPath>>

reportBundlesLazy(op) == sortBundles(ObjValues(statsAccumulator))

\* The bundles a report write serializes: those captured at the call.
reportBundles(op) == op.bundles

\* The write of link i completes: the line is appended, or the report
\* replaces the file.
WriteSucceeds(i) ==
  /\ i \in 1..Len(writeQueue)
  /\ writeQueue[i].st = "running"
  /\ LET op == writeQueue[i]
     IN  fs' = [fs EXCEPT ![op.path] =
                 IF op.kind = "append" THEN appendJsonLine(@, op.line)
                 ELSE ReportFile(reportBundles(op))]
  /\ writeQueue' = [writeQueue EXCEPT ![i].st = "fulfilled"]
  /\ UNCHANGED <<statsAccumulator, statsFilePath, finalizationScheduled,
                 exitListeners, calls, accumulated, replaced, started, listed,
                 exitHandlers, drained,
                 reads, accumulatedPath>>

\* The write of link i fails: the file is as it was, the link rejects.
WriteFails(i) ==
  /\ i \in 1..Len(writeQueue)
  /\ writeQueue[i].st = "running"
  /\ writeQueue' = [writeQueue EXCEPT ![i].st = "rejected", ![i].err = i]
  /\ UNCHANGED <<statsAccumulator, statsFilePath, finalizationScheduled,
                 exitListeners, fs, calls, accumulated, replaced, started, listed,
                 exitHandlers, drained,
                 reads, accumulatedPath>>

CanSkipAppends(i) ==
  /\ i \in 2..Len(writeQueue)
  /\ writeQueue[i].st = "pending"
  /\ writeQueue[i - 1].st = "rejected"
  /\ writeQueue[i].kind = "append"

\* then() without a rejection handler: a link after a rejected one rejects
\* with the same error and its body never runs.
CanSkip(i) ==
  /\ i \in 2..Len(writeQueue)
  /\ writeQueue[i].st = "pending"
  /\ writeQueue[i - 1].st = "rejected"

SkipOperation(i) ==
  /\ CanSkip(i)
  /\ writeQueue' = [writeQueue EXCEPT ![i].st = "rejected",
                                      ![i].err = writeQueue[i - 1].err]
  /\ UNCHANGED <<statsAccumulator, statsFilePath, finalizationScheduled,
                 exitListeners, fs, calls, accumulated, replaced, started, listed,
                 exitHandlers, drained,
                 reads, accumulatedPath>>

\* The second link of a finalize: clear the accumulator, reset the flag.
ClearAccumulator(i) ==
  /\ CanRun(i)
  /\ writeQueue[i].kind = "clear"
  /\ statsAccumulator' = <<>>
  /\ finalizationScheduled' = FALSE
  /\ accumulated' = NoHistory
  /\ replaced' = {}
  /\ writeQueue' = [writeQueue EXCEPT ![i].st = "fulfilled"]
  /\ accumulatedPath' = NoPaths
  /\ started' = Append(started, i)
  /\ UNCHANGED <<statsFilePath, exitListeners, fs, calls, listed,
                 exitHandlers, drained, reads>>

\* ------------------------------------------------------------------------
\* The stats accumulator
\* ------------------------------------------------------------------------
writeAtlasStatsEntry(filePath, entry) ==
  /\ statsAccumulator' = MapSet(statsAccumulator, entry.id, convertBundleToStats(entry))
  /\ statsFilePath' = filePath
  /\ IF ~finalizationScheduled /\ Len(statsAccumulator') > 0
     THEN finalizationScheduled' = TRUE /\ exitListeners' = exitListeners + 1
     ELSE UNCHANGED <<finalizationScheduled, exitListeners>>
  /\ accumulated' = [accumulated EXCEPT ![entry.id] = entry]
  /\ replaced' = IF accumulated[entry.id] \notin {NoBundle, entry}
                  THEN replaced \cup {entry.id} ELSE replaced
  /\ accumulatedPath' = [accumulatedPath EXCEPT ![entry.id] = filePath]
  /\ UNCHANGED <<writeQueue, fs, calls, started, listed,
                 exitHandlers, drained, reads>>

exitLinksNone(q, n) == q

\* n exit listeners run one after the other: each finalizes if there is
\* something accumulated.
RECURSIVE exitLinks(_, _)
exitLinks(q, n) ==
  IF n = 0 THEN q
  ELSE exitLinks(IF Len(statsAccumulator) > 0 /\ statsFilePath # NoPath
                 THEN finalizeLinks(q, statsFilePath) ELSE q, n - 1)

\* The runs of n listeners on queue q: each awaits the handle of the
\* finalizeAtlasStats it called, or returns at once.
exitRuns(q, n) ==
  [k \in 1..n |->
     IF Len(exitLinks(q, 1)) > Len(q)
     THEN [awaits |-> Len(q) + 2 * k, st |-> "awaiting", logged |-> FALSE]
     ELSE [awaits |-> 0, st |-> "returned", logged |-> FALSE]]

\* 'beforeExit': nothing is pending any more, the once-listeners run.
beforeExit ==
  /\ exitListeners > 0
  /\ \A i \in 1..Len(writeQueue) : Settled(writeQueue[i])
  /\ \A c \in 1..Len(calls) : calls[c].pc = "done"
  /\ \A h \in 1..Len(exitHandlers) : exitHandlers[h].st # "awaiting"
  /\ Len(exitLinks(writeQueue, exitListeners)) <= MaxOps
  /\ writeQueue' = exitLinks(writeQueue, exitListeners)
  /\ exitHandlers' = exitHandlers \o exitRuns(writeQueue, exitListeners)
  /\ exitListeners' = 0
  /\ UNCHANGED <<statsAccumulator, statsFilePath, finalizationScheduled, fs, calls,
                 accumulated, replaced, started, listed, drained,
                 reads, accumulatedPath>>

handlerOutcomeUncaught(handler, op) ==
  IF op.st = "rejected" THEN [handler EXCEPT !.st = "threw"]
  ELSE [handler EXCEPT !.st = "returned"]

\* try { await finalizeAtlasStats(statsFilePath) } catch (error) { console.error(...) }
handlerOutcome(handler, op) ==
  [handler EXCEPT !.st = "returned", !.logged = (op.st = "rejected")]

\* The handle a listener awaits has settled: the listener goes on.
ExitHandlerResumes(h) ==
  /\ h \in 1..Len(exitHandlers)
  /\ exitHandlers[h].st = "awaiting"
  /\ Settled(writeQueue[exitHandlers[h].awaits])
  /\ exitHandlers' = [exitHandlers EXCEPT ![h] = handlerOutcome(@, writeQueue[@.awaits])]
  /\ UNCHANGED <<writeQueue, statsAccumulator, statsFilePath, finalizationScheduled,
                 exitListeners, fs, calls, accumulated, replaced, started, listed,
                 drained,
                 reads, accumulatedPath>>

\* waitUntilAtlasFileReady() is called: it returns the tail of the chain.
waitUntilAtlasFileReady ==
  /\ Cardinality(drained) < MaxDrains
  /\ drained' = drained \cup {Len(writeQueue)}
  /\ UNCHANGED <<writeQueue, statsAccumulator, statsFilePath, finalizationScheduled,
                 exitListeners, fs, calls, accumulated, replaced, started, listed,
                 exitHandlers,
                 reads, accumulatedPath>>

\* ------------------------------------------------------------------------
\* Creating and validating the log
\* ------------------------------------------------------------------------
validateAtlasFileNameOnly(file, metadata, noValidation) ==
  IF file = NoFile THEN "ATLAS_FILE_NOT_FOUND"
  ELSE IF noValidation THEN "ok"
  ELSE IF file[1].type \notin {"metadata", "bundle"} THEN "SyntaxError"
  ELSE IF file[1].name # metadata.name THEN "ATLAS_FILE_INCOMPATIBLE"
  ELSE "ok"

\* The outcome of validateAtlasFile on a file.
validateAtlasFile(file, metadata, noValidation) ==
  IF file = NoFile THEN "ATLAS_FILE_NOT_FOUND"
  ELSE IF noValidation THEN "ok"
  ELSE IF file[1].type \notin {"metadata", "bundle"} THEN "SyntaxError"
  ELSE IF file[1].name # metadata.name \/ file[1].version # metadata.version
       THEN "ATLAS_FILE_INCOMPATIBLE"
  ELSE "ok"

\* The outcome of a validateAtlasFile call: reading line 1 may fail.
validateOutcome(file, metadata, noValidation, readFails) ==
  IF file # NoFile /\ ~noValidation /\ readFails THEN "ReadError"
  ELSE validateAtlasFile(file, metadata, noValidation)

\* validateAtlasFile(filePath, metadata) is called and settles.
Validate(filePath, metadata, noValidation, readFails) ==
  /\ Len(calls) < MaxCreates
  /\ calls' = Append(calls,
       [fn |-> "validateAtlasFile", path |-> filePath, pc |-> "done",
        result |-> validateOutcome(fs[filePath], metadata, noValidation, readFails),
        metadata |-> metadata, noValidation |-> noValidation, readFails |-> readFails])
  /\ UNCHANGED <<writeQueue, statsAccumulator, statsFilePath, finalizationScheduled,
                 exitListeners, fs, accumulated, replaced, started, listed,
                 exitHandlers, drained,
                 reads, accumulatedPath>>

\* createAtlasFile(filePath), also resetExpoAtlasFile(projectRoot), is called.
createAtlasFile(filePath) ==
  /\ Len(calls) < MaxCreates
  /\ calls' = Append(calls, [fn |-> "createAtlasFile", path |-> filePath,
                             pc |-> "rm", result |-> "pending"])
  /\ UNCHANGED <<writeQueue, statsAccumulator, statsFilePath, finalizationScheduled,
                 exitListeners, fs, accumulated, replaced, started, listed,
                 exitHandlers, drained,
                 reads, accumulatedPath>>

\* ensureAtlasFileExist(filePath) is called.
ensureAtlasFileExist(filePath) ==
  /\ Len(calls) < MaxCreates
  /\ calls' = Append(calls, [fn |-> "ensureAtlasFileExist", path |-> filePath,
                             pc |-> "validate", result |-> "pending"])
  /\ UNCHANGED <<writeQueue, statsAccumulator, statsFilePath, finalizationScheduled,
                 exitListeners, fs, accumulated, replaced, started, listed,
                 exitHandlers, drained,
                 reads, accumulatedPath>>

\* ensureAtlasFileExist validates: it returns true, goes on to recreate the
\* file, or rethrows.
EnsureValidate(c, noValidation, readFails) ==
  /\ c \in 1..Len(calls)
  /\ calls[c].pc = "validate"
  /\ LET outcome == validateOutcome(fs[calls[c].path], getAtlasMetdata, noValidation, readFails)
     IN  calls' = [calls EXCEPT ![c] =
           IF outcome = "ok" THEN [@ EXCEPT !.pc = "done", !.result = "true"]
           ELSE IF outcome \in {"ATLAS_FILE_NOT_FOUND", "ATLAS_FILE_INCOMPATIBLE"}
                THEN [@ EXCEPT !.pc = "rm"]
           ELSE [@ EXCEPT !.pc = "done", !.result = outcome]]
  /\ UNCHANGED <<writeQueue, statsAccumulator, statsFilePath, finalizationScheduled,
                 exitListeners, fs, accumulated, replaced, started, listed,
                 exitHandlers, drained,
                 reads, accumulatedPath>>

CreateRemoveKeeps(c) ==
  /\ c \in 1..Len(calls)
  /\ calls[c].pc = "rm"
  /\ calls' = [calls EXCEPT ![c].pc = "append"]
  /\ UNCHANGED <<writeQueue, statsAccumulator, statsFilePath, finalizationScheduled,
                 exitListeners, fs, accumulated, replaced, started, listed,
                 exitHandlers, drained,
                 reads, accumulatedPath>>

\* createAtlasFile removes the file.
CreateRemove(c) ==
  /\ c \in 1..Len(calls)
  /\ calls[c].pc = "rm"
  /\ fs' = [fs EXCEPT ![calls[c].path] = NoFile]
  /\ calls' = [calls EXCEPT ![c].pc = "append"]
  /\ UNCHANGED <<writeQueue, statsAccumulator, statsFilePath, finalizationScheduled,
                 exitListeners, accumulated, replaced, started, listed,
                 exitHandlers, drained,
                 reads, accumulatedPath>>

\* createAtlasFile appends the metadata line.
CreateAppend(c) ==
  /\ c \in 1..Len(calls)
  /\ calls[c].pc = "append"
  /\ fs' = [fs EXCEPT ![calls[c].path] = appendJsonLine(@, MetadataLine(getAtlasMetdata))]
  /\ calls' = [calls EXCEPT ![c].pc = "done",
                            ![c].result = IF calls[c].fn = "createAtlasFile"
                                          THEN "created" ELSE "false"]
  /\ UNCHANGED <<writeQueue, statsAccumulator, statsFilePath, finalizationScheduled,
                 exitListeners, accumulated, replaced, started, listed,
                 exitHandlers, drained,
                 reads, accumulatedPath>>

\* ------------------------------------------------------------------------
\* Listing
\* ------------------------------------------------------------------------
listBundles(filePath) ==
  /\ fs[filePath] # NoFile
  /\ listed' = listAtlasEntries(fs[filePath])
  /\ UNCHANGED <<writeQueue, statsAccumulator, statsFilePath, finalizationScheduled,
                 exitListeners, fs, calls, accumulated, replaced, started,
                 exitHandlers, drained,
                 reads, accumulatedPath>>

\* ------------------------------------------------------------------------
\* Reading
\* ------------------------------------------------------------------------
\* A call that reads an entry: `line` is the number handed to
\* readAtlasEntry. History: `lines` is the length of the file when the call
\* was made; `during` is the states the links of the chain were in when the
\* call completed.
ReadCall(fn, filePath, id, line, pc, result) ==
  [fn |-> fn, path |-> filePath, id |-> id, line |-> line, pc |-> pc, result |-> result,
   lines |-> IF fs[filePath] = NoFile THEN 0 ELSE Len(fs[filePath]),
   during |-> {}]

\* AtlasFileSource.getBundle(id) is called: the assertion fails, or
\* readAtlasEntry is called with Number(id).
getBundle(filePath, id) ==
  /\ Len(reads) < MaxReads
  /\ LET numeric == parseInt(id)
     IN  reads' = Append(reads,
           IF ~numeric.nan /\ numeric.whole > 1
           THEN ReadCall("getBundle", filePath, id, Number(id), "reading", [error |-> "pending"])
           ELSE ReadCall("getBundle", filePath, id, NaN, "done", [error |-> "AssertionError"]))
  /\ UNCHANGED <<writeQueue, statsAccumulator, statsFilePath, finalizationScheduled,
                 exitListeners, fs, calls, accumulated, replaced, started, listed,
                 exitHandlers, drained, accumulatedPath>>

\* readAtlasEntry(filePath, id) is called with a line number.
ReadEntry(filePath, id) ==
  /\ Len(reads) < MaxReads
  /\ reads' = Append(reads,
       ReadCall("readAtlasEntry", filePath, String(id), Num(id), "reading",
                [error |-> "pending"]))
  /\ UNCHANGED <<writeQueue, statsAccumulator, statsFilePath, finalizationScheduled,
                 exitListeners, fs, calls, accumulated, replaced, started, listed,
                 exitHandlers, drained, accumulatedPath>>

CanCompleteQueued(r) ==
  /\ r \in 1..Len(reads)
  /\ reads[r].pc = "reading"
  /\ \A i \in 1..Len(writeQueue) : writeQueue[i].st = "fulfilled"

\* The read of call r can complete: readAtlasEntry awaits parseJsonLine and
\* nothing else.
CanComplete(r) ==
  /\ r \in 1..Len(reads)
  /\ reads[r].pc = "reading"

\* The read of a call completes: the file is parsed as it is by then; no
\* line has a number that is not a positive integer.
ReadCompletes(r) ==
  /\ CanComplete(r)
  /\ LET call == reads[r]
         result == IF call.line.nan \/ call.line.frac \/ call.line.whole < 1
                   THEN [error |-> "LineNotFound"]
                   ELSE readAtlasEntry(fs[call.path], call.line.whole)
     IN  reads' = [reads EXCEPT ![r] =
           [call EXCEPT !.pc = "done", !.result = result,
                        !.during = {writeQueue[i].st : i \in 1..Len(writeQueue)}]]
  /\ UNCHANGED <<writeQueue, statsAccumulator, statsFilePath, finalizationScheduled,
                 exitListeners, fs, calls, accumulated, replaced, started, listed,
                 exitHandlers, drained, accumulatedPath>>

\* ------------------------------------------------------------------------
\* Specifications
\* ------------------------------------------------------------------------
\* The write queue, the accumulator and the finalizer, over logs that
\* exist.
QueueInit ==
  /\ Init
  /\ \A p \in LogPaths : fs[p] = FreshFile(getAtlasMetdata)

QueueNext ==
  \/ \E p \in LogPaths, b \in AppendBundles : writeAtlasEntry(p, b)
  \/ \E b \in Bundles : writeAtlasStatsEntry(LogPath, b)
  \/ finalizeAtlasStats(LogPath)
  \/ \E i \in 1..MaxOps : BeginWrite(i)
  \/ \E i \in 1..MaxOps : WriteSucceeds(i)
  \/ \E i \in 1..MaxOps : WriteFails(i)
  \/ \E i \in 1..MaxOps : SkipOperation(i)
  \/ \E i \in 1..MaxOps : ClearAccumulator(i)

Spec == QueueInit /\ [][QueueNext]_vars

\* The accumulator, the finalizer and the exit listener, next to appends to
\* one log.
ExitNext ==
  \/ \E b \in AppendBundles : b.id = <<"1">> /\ writeAtlasEntry(LogPath, b)
  \/ \E b \in Bundles : writeAtlasStatsEntry(LogPath, b)
  \/ finalizeAtlasStats(LogPath)
  \/ \E i \in 1..MaxOps : BeginWrite(i)
  \/ \E i \in 1..MaxOps : WriteSucceeds(i)
  \/ \E i \in 1..MaxOps : WriteFails(i)
  \/ \E i \in 1..MaxOps : SkipOperation(i)
  \/ \E i \in 1..MaxOps : ClearAccumulator(i)
  \/ beforeExit
  \/ \E h \in 1..MaxOps : ExitHandlerResumes(h)

SpecExit == QueueInit /\ [][ExitNext]_vars

\* The serializer withExpoAtlas installs appends only after the call of
\* ensureAtlasFileExist, or the exporter's resetExpoAtlasFile, was made.
\* The log of one project: created, validated, appended to and listed.
LogInit ==
  /\ Init
  /\ fs[getAtlasPath("q")] = NoFile

LogNext ==
  \/ \E b \in LogBundles :
       /\ \E c \in 1..Len(calls) : calls[c].fn # "validateAtlasFile"
       /\ Len(writeQueue) < MaxAppends
       /\ writeAtlasEntry(LogPath, b)
  \/ \E i \in 1..MaxOps : BeginWrite(i)
  \/ \E i \in 1..MaxOps : WriteSucceeds(i)
  \/ \E i \in 1..MaxOps : WriteFails(i)
  \/ \E i \in 1..MaxOps : SkipOperation(i)
  \/ createAtlasFile(LogPath)
  \/ ensureAtlasFileExist(LogPath)
  \/ \E c \in 1..MaxCreates, noValidation \in BOOLEAN, readFails \in BOOLEAN :
       EnsureValidate(c, noValidation, readFails)
  \/ \E c \in 1..MaxCreates : CreateRemove(c)
  \/ \E c \in 1..MaxCreates : CreateAppend(c)
  \/ listBundles(LogPath)

SpecLog == LogInit /\ [][LogNext]_vars

\* The log of one project is validated, ensured and created, next to
\* appends of one bundle.
EnsureNext ==
  \/ \E b \in AppendBundles :
       b.id = <<"1">> /\ Len(writeQueue) < MaxAppends /\ writeAtlasEntry(LogPath, b)
  \/ \E i \in 1..MaxOps : BeginWrite(i)
  \/ \E i \in 1..MaxOps : WriteSucceeds(i)
  \/ createAtlasFile(LogPath)
  \/ ensureAtlasFileExist(LogPath)
  \/ \E c \in 1..MaxCreates, noValidation \in BOOLEAN, readFails \in BOOLEAN :
       EnsureValidate(c, noValidation, readFails)
  \/ \E c \in 1..MaxCreates : CreateRemove(c)
  \/ \E c \in 1..MaxCreates : CreateAppend(c)
  \/ \E metadata \in {getAtlasMetdata, OlderMetadata, OtherMetadata},
        noValidation \in BOOLEAN, readFails \in BOOLEAN :
       Validate(LogPath, metadata, noValidation, readFails)

SpecEnsure == LogInit /\ [][EnsureNext]_vars

\* The write queue and the callers that wait for it to drain.
DrainNext ==
  \/ \E p \in LogPaths, b \in AppendBundles : writeAtlasEntry(p, b)
  \/ finalizeAtlasStats(LogPath)
  \/ \E i \in 1..MaxOps : BeginWrite(i)
  \/ \E i \in 1..MaxOps : WriteSucceeds(i)
  \/ \E i \in 1..MaxOps : WriteFails(i)
  \/ \E i \in 1..MaxOps : SkipOperation(i)
  \/ \E i \in 1..MaxOps : ClearAccumulator(i)
  \/ waitUntilAtlasFileReady

SpecDrain == QueueInit /\ [][DrainNext]_vars

\* The write queue with its scheduling: the reaction of a link runs once
\* the link before it has settled, and every write that was issued
\* completes, with success or with failure.
ProgressNext ==
  \/ \E b \in AppendBundles : b.id = <<"1">> /\ writeAtlasEntry(LogPath, b)
  \/ finalizeAtlasStats(LogPath)
  \/ \E i \in 1..MaxOps : BeginWrite(i)
  \/ \E i \in 1..MaxOps : WriteSucceeds(i)
  \/ \E i \in 1..MaxOps : WriteFails(i)
  \/ \E i \in 1..MaxOps : SkipOperation(i)
  \/ \E i \in 1..MaxOps : ClearAccumulator(i)
  \/ waitUntilAtlasFileReady

ProgressFairness ==
  /\ WF_vars(\E i \in 1..MaxOps : BeginWrite(i))
  /\ WF_vars(\E i \in 1..MaxOps : SkipOperation(i))
  /\ WF_vars(\E i \in 1..MaxOps : ClearAccumulator(i))
  /\ WF_vars(\E i \in 1..MaxOps : WriteSucceeds(i) \/ WriteFails(i))

SpecProgress == QueueInit /\ [][ProgressNext]_vars /\ ProgressFairness

\* The paths withExpoAtlas is configured with: the default log and the
\* custom ones.
ConfiguredPaths == {LogPath} \cup CustomPaths

\* Bundles are appended, accumulated and finalized under the default and
\* under custom log paths, the exit listener included.
PathsNext ==
  \/ \E p \in CustomPaths, b \in AppendBundles :
       b.id = <<"1">> /\ Len(writeQueue) < MaxAppends /\ writeAtlasEntry(p, b)
  \/ \E p \in ConfiguredPaths, b \in AppendBundles : writeAtlasStatsEntry(p, b)
  \/ \E p \in ConfiguredPaths : finalizeAtlasStats(p)
  \/ \E i \in 1..MaxOps : BeginWrite(i)
  \/ \E i \in 1..MaxOps : WriteSucceeds(i)
  \/ \E i \in 1..MaxOps : ClearAccumulator(i)
  \/ beforeExit
  \/ \E h \in 1..MaxOps : ExitHandlerResumes(h)

SpecPaths == QueueInit /\ [][PathsNext]_vars

\* Entries are appended and read back by line number.
ReadNext ==
  \/ \E b \in ReadBundles : Len(writeQueue) < MaxAppends /\ writeAtlasEntry(LogPath, b)
  \/ \E i \in 1..MaxOps : BeginWrite(i)
  \/ \E i \in 1..MaxOps : WriteSucceeds(i)
  \/ \E i \in 1..MaxOps : WriteFails(i)
  \/ \E id \in 1..(MaxAppends + 1) : ReadEntry(LogPath, id)
  \/ \E r \in 1..MaxReads : ReadCompletes(r)

SpecRead == QueueInit /\ [][ReadNext]_vars

\* Bundles are requested by id from a log that is being appended to.
GetNext ==
  \/ \E b \in AppendBundles :
       b.id = <<"1">> /\ Len(writeQueue) < MaxAppends /\ writeAtlasEntry(LogPath, b)
  \/ \E i \in 1..MaxOps : BeginWrite(i)
  \/ \E i \in 1..MaxOps : WriteSucceeds(i)
  \/ \E id \in IdStrings : getBundle(LogPath, id)
  \/ \E r \in 1..MaxReads : ReadCompletes(r)

SpecGet == QueueInit /\ [][GetNext]_vars

\* The log is listed and read next to the appends, the accumulations and
\* the finalizes that go through the write queue.
FrameNext ==
  \/ \E b \in AppendBundles : b.id = <<"1">> /\ writeAtlasEntry(LogPath, b)
  \/ \E b \in AppendBundles : b.id = <<"1">> /\ writeAtlasStatsEntry(LogPath, b)
  \/ finalizeAtlasStats(LogPath)
  \/ \E i \in 1..MaxOps : BeginWrite(i)
  \/ \E i \in 1..MaxOps : WriteSucceeds(i)
  \/ \E i \in 1..MaxOps : WriteFails(i)
  \/ \E i \in 1..MaxOps : SkipOperation(i)
  \/ \E i \in 1..MaxOps : ClearAccumulator(i)
  \/ ReadEntry(LogPath, 2)
  \/ \E r \in 1..MaxReads : ReadCompletes(r)
  \/ listBundles(LogPath)

SpecFrame == QueueInit /\ [][FrameNext]_vars

\* convertBundleToStats on every bundle of ConvBundles: one accumulation
\* into the empty accumulator.
ConvNext ==
  \E b \in ConvBundles : statsAccumulator = <<>> /\ writeAtlasStatsEntry(LogPath, b)

SpecConvert == QueueInit /\ [][ConvNext]_vars

\* Bundles are accumulated in any order, then finalized and reported.
ReportNext ==
  \/ \E b \in SortBundles : writeQueue = <<>> /\ writeAtlasStatsEntry(LogPath, b)
  \/ finalizeAtlasStats(LogPath)
  \/ \E i \in 1..MaxOps : BeginWrite(i)
  \/ \E i \in 1..MaxOps : WriteSucceeds(i)
  \/ \E i \in 1..MaxOps : ClearAccumulator(i)

SpecReport == QueueInit /\ [][ReportNext]_vars

\* convertBundleToStats on every bundle of KeyBundles.
KeysNext ==
  \E b \in KeyBundles : statsAccumulator = <<>> /\ writeAtlasStatsEntry(LogPath, b)

SpecKeys == QueueInit /\ [][KeysNext]_vars

\* ------------------------------------------------------------------------
\* Properties
\* ------------------------------------------------------------------------
Links == 1..Len(writeQueue)

\* The body of link i has begun.
Began(i) == \E k \in 1..Len(started) : started[k] = i

\* The links of the fulfilled appends to a path, in queue order.
Appended(p) ==
  LET Test(op) == op.kind = "append" /\ op.path = p /\ op.st = "fulfilled"
  IN  SelectSeq(writeQueue, Test)

AppendedLines(p) == [k \in 1..Len(Appended(p)) |-> Appended(p)[k].line]

Count(s, x) == Cardinality({k \in 1..Len(s) : s[k] = x})

IsPermutation(s, t) ==
  /\ Len(s) = Len(t)
  /\ \A k \in 1..Len(s) : Count(s, s[k]) = Count(t, s[k])

\* C1: the bodies of the queued operations begin in the order of the calls,
\* each only once every earlier one has completed, at most one is in
\* progress at any time, and every log holds, after its header, the lines
\* of its completed appends in the order of the calls.
OrderedExecution ==
  /\ Cardinality({i \in Links : writeQueue[i].st = "running"}) <= 1
  /\ \A k \in 1..Len(started) :
       /\ k > 1 => started[k - 1] < started[k]
       /\ \A i \in 1..(started[k] - 1) : writeQueue[i].st = "fulfilled"
  /\ \A p \in LogPaths : fs[p] = FreshFile(getAtlasMetdata) \o AppendedLines(p)

\* Two different lines were appended to one log, and a third operation on
\* the other log is in progress.
OrderedExecutionWitness ==
  /\ Len(writeQueue) = 3
  /\ \A i \in 1..3 : writeQueue[i].kind = "append"
  /\ writeQueue[1].path = writeQueue[2].path
  /\ writeQueue[1].line # writeQueue[2].line
  /\ writeQueue[3].path # writeQueue[1].path
  /\ writeQueue[2].st = "fulfilled"
  /\ writeQueue[3].st = "running"

\* C2: once the write of a link has failed, no later link ever begins its
\* body, and every later link that has settled is rejected with the error
\* of the link whose write failed.
PoisonPropagation ==
  \A i \in Links : writeQueue[i].st = "rejected" =>
    LET k == writeQueue[i].err
    IN  /\ k \in 1..i
        /\ Began(k)
        /\ writeQueue[k].st = "rejected" /\ writeQueue[k].err = k
        /\ \A j \in (k + 1)..Len(writeQueue) :
             /\ ~Began(j)
             /\ writeQueue[j].st \in {"pending", "rejected"}
             /\ writeQueue[j].st = "rejected" => writeQueue[j].err = k

\* An append failed and the two links of a later finalize were skipped.
PoisonPropagationWitness ==
  /\ Len(writeQueue) = 3
  /\ writeQueue[1].kind = "append"
  /\ writeQueue[2].kind = "writeStats" /\ writeQueue[3].kind = "clear"
  /\ \A i \in 1..3 : writeQueue[i].st = "rejected" /\ writeQueue[i].err = 1
  /\ statsAccumulator # <<>>

\* The partial bundle listBundles owes to an appended entry on a line.
PartialAtlasBundle(line, entry) ==
  [id |-> String(line), platform |-> entry.platform, environment |-> entry.environment,
   projectRoot |-> entry.projectRoot, sharedRoot |-> entry.sharedRoot,
   entryPoint |-> entry.entryPoint]

\* C3: when every call that creates the log has returned and the log is its
\* header followed by the lines of the N completed appends, listing yields N partial bundles with the ids "2" to "N+1", in
\* append order, with the five strings of the appended bundles.
ListMatchesAppends ==
  (/\ \A c \in 1..Len(calls) : calls[c].pc = "done"
   /\ fs[LogPath] # NoFile
   /\ fs[LogPath][1].type = "metadata"
   /\ fs[LogPath] = <<fs[LogPath][1]>> \o AppendedLines(LogPath))
  => listAtlasEntries(fs[LogPath]) =
       [k \in 1..Len(Appended(LogPath)) |->
          PartialAtlasBundle(k + 1, Appended(LogPath)[k].entry)]

\* C4: a log that exists has the metadata on line 1, so that every bundle
\* record is on a line from 2 on.
MetadataOnLineOne ==
  \A p \in LogPaths : fs[p] # NoFile => fs[p][1].type = "metadata"

\* C5: the accumulator is cleared and the flag reset only by the second
\* link of a finalize whose report write succeeded; a step in which a link
\* of a finalize rejects changes neither the accumulator, nor the flag, nor
\* any file.
ClearStep ==
  /\ (\/ statsAccumulator # <<>> /\ statsAccumulator' = <<>>
      \/ finalizationScheduled /\ ~finalizationScheduled')
     => \E i \in 2..Len(writeQueue) :
          /\ writeQueue[i].kind = "clear"
          /\ writeQueue[i].st = "pending" /\ writeQueue'[i].st = "fulfilled"
          /\ writeQueue[i - 1].kind = "writeStats"
          /\ writeQueue[i - 1].st = "fulfilled"
          /\ fs[writeQueue[i - 1].path] = ReportFile(writeQueue[i - 1].bundles)
  /\ \A i \in Links :
       (/\ writeQueue[i].kind \in {"writeStats", "clear"}
        /\ writeQueue[i].st # "rejected" /\ writeQueue'[i].st = "rejected")
       => /\ statsAccumulator' = statsAccumulator
          /\ finalizationScheduled' = finalizationScheduled
          /\ fs' = fs

ClearOnlyAfterWrite == [][ClearStep]_vars

\* A report write failed, its clear was skipped, and the accumulator and
\* the flag are as they were, with no report on disk.
ClearOnlyAfterWriteWitness ==
  \E i \in 2..Len(writeQueue) :
    /\ writeQueue[i].kind = "clear" /\ writeQueue[i].st = "rejected"
    /\ writeQueue[i - 1].st = "rejected" /\ writeQueue[i - 1].err = i - 1
    /\ statsAccumulator # <<>>
    /\ finalizationScheduled
    /\ fs[writeQueue[i - 1].path] = NoFile

\* C6: in the step that fulfils the handle of a finalize (its second
\* link), the report write has completed, the report holds exactly the
\* bundles the accumulator held at the call, and the accumulator is empty.
ResolveStep ==
  \A i \in 2..Len(writeQueue) :
    (/\ writeQueue[i].kind = "clear"
     /\ writeQueue[i].st # "fulfilled" /\ writeQueue'[i].st = "fulfilled")
    => LET w == writeQueue[i - 1]
       IN  /\ w.kind = "writeStats" /\ w.st = "fulfilled"
           /\ fs'[w.path] # NoFile
           /\ fs'[w.path][1].type = "report"
           /\ IsPermutation(fs'[w.path][1].bundles, w.called)
           /\ statsAccumulator' = <<>>

ResolvedAfterReport == [][ResolveStep]_vars

\* The handle of a finalize called over two accumulated bundles is fulfilled.
ResolvedAfterReportWitness ==
  \E i \in 2..Len(writeQueue) :
    /\ writeQueue[i].kind = "clear" /\ writeQueue[i].st = "fulfilled"
    /\ Len(writeQueue[i - 1].called) = 2
    /\ fs[writeQueue[i - 1].path] = ReportFile(writeQueue[i - 1].bundles)

\* The modules and runtime modules of a bundle, in the order visited.
AllModules(bundle) == ObjValues(bundle.modules) \o bundle.runtimeModules

Sizes(mods) == [k \in 1..Len(mods) |-> mods[k].size]

KeySet(o) == {o[k].key : k \in 1..Len(o)}

\* The stats bundles held, each with the bundle it was converted from.
Held ==
  {[stats |-> statsAccumulator[k].value, bundle |-> accumulated[statsAccumulator[k].key]] :
     k \in 1..Len(statsAccumulator)}

\* C7: bundleSize is the sum of the sizes of all modules and all runtime
\* modules of the bundle.
BundleSizeIsTotal ==
  \A h \in Held : h.stats.bundleSize = SumSeq(Sizes(AllModules(h.bundle)))

\* C8: no key occurs in more than one of packages, files and assets.
CategoriesDisjoint ==
  \A h \in Held :
    /\ KeySet(h.stats.packages) \cap KeySet(h.stats.files) = {}
    /\ KeySet(h.stats.packages) \cap KeySet(h.stats.assets) = {}
    /\ KeySet(h.stats.files) \cap KeySet(h.stats.assets) = {}

\* C8, amended: no key occurs in both files and assets, and a key of
\* packages occurs in files or assets only as the relative path of a module
\* without a package.
PathCategoriesDisjoint ==
  \A h \in Held :
    /\ KeySet(h.stats.files) \cap KeySet(h.stats.assets) = {}
    /\ \A key \in KeySet(h.stats.packages) \cap
                   (KeySet(h.stats.files) \cup KeySet(h.stats.assets)) :
         \E k, l \in 1..Len(AllModules(h.bundle)) :
           /\ AllModules(h.bundle)[k].package = key
           /\ AllModules(h.bundle)[l].package = Undefined
           /\ AllModules(h.bundle)[l].relativePath = key

\* A stats bundle with a source file, an asset and a package.
PathCategoriesDisjointWitness ==
  \E h \in Held :
    /\ h.stats.files # <<>>
    /\ h.stats.assets # <<>>
    /\ h.stats.packages # <<>>

\* The modules of a bundle that a package owns, and the other ones.
OwnedBy(bundle, package) ==
  LET Test(m) == m.package = package IN SelectSeq(AllModules(bundle), Test)

FirstParty(bundle) ==
  LET Test(m) == ~Truthy(m.package) IN SelectSeq(AllModules(bundle), Test)

\* C9: packages holds exactly the packages that own a module, each with the
\* sum of the sizes of the modules it owns; assets holds exactly the
\* relative paths with an asset extension of the modules without a package,
\* and files exactly their other relative paths.
CategoryRule ==
  \A h \in Held :
    LET mods == AllModules(h.bundle)
        own == FirstParty(h.bundle)
    IN  /\ KeySet(h.stats.packages) =
             {mods[k].package : k \in {k \in 1..Len(mods) : Truthy(mods[k].package)}}
        /\ \A p \in KeySet(h.stats.packages) :
             ObjGet(h.stats.packages, p) = SumSeq(Sizes(OwnedBy(h.bundle, p)))
        /\ KeySet(h.stats.assets) =
             {own[k].relativePath : k \in {k \in 1..Len(own) : isAsset(own[k].relativePath)}}
        /\ KeySet(h.stats.files) =
             {own[k].relativePath : k \in {k \in 1..Len(own) : ~isAsset(own[k].relativePath)}}

\* A package owns a module and a runtime module of different sizes, next to
\* an asset and a source file.
CategoryRuleWitness ==
  \E h \in Held :
    /\ Len(h.bundle.modules) = 2
    /\ Len(h.bundle.runtimeModules) = 1
    /\ h.bundle.modules[1].value.package = React
    /\ h.bundle.runtimeModules[1].package = React
    /\ h.bundle.modules[1].value.size # h.bundle.runtimeModules[1].size
    /\ h.bundle.modules[2].value.relativePath = LogoPng
    /\ KeySet(h.stats.assets) = {LogoPng}
    /\ ObjGet(h.stats.packages, React) = 3

\* C10: the accumulator holds one entry for each id accumulated since the
\* last clear, with the stats of the last bundle accumulated under that id,
\* and the bundles a finalize captures are one for each id accumulated by
\* then, each the stats of the last bundle accumulated under it.
LastWriteWins ==
  /\ \A k, l \in 1..Len(statsAccumulator) :
       k # l => statsAccumulator[k].key # statsAccumulator[l].key
  /\ \A id \in BundleIds :
       IF accumulated[id] = NoBundle THEN ~ObjHas(statsAccumulator, id)
       ELSE /\ ObjHas(statsAccumulator, id)
            /\ ObjGet(statsAccumulator, id) = convertBundleToStats(accumulated[id])
  /\ \A i \in Links : writeQueue[i].kind = "writeStats" =>
       LET ids == {id \in BundleIds : writeQueue[i].last[id] # NoBundle}
       IN  /\ Len(writeQueue[i].bundles) = Cardinality(ids)
           /\ \A id \in ids : \E k \in 1..Len(writeQueue[i].bundles) :
                writeQueue[i].bundles[k] = convertBundleToStats(writeQueue[i].last[id])

\* A report was written by a finalize called after a bundle had replaced
\* another one with its id, next to a bundle with another id.
LastWriteWinsWitness ==
  \E i \in Links :
    /\ writeQueue[i].kind = "writeStats" /\ writeQueue[i].st = "fulfilled"
    /\ writeQueue[i].again # {}
    /\ Len(writeQueue[i].bundles) = 2
    /\ fs[writeQueue[i].path] = ReportFile(writeQueue[i].bundles)

\* ------------------------------------------------------------------------
\* Draining and the exit listener
\* ------------------------------------------------------------------------
\* The state of the handle waitUntilAtlasFileReady returned when the chain
\* had n links: the handle is the tail of the chain at the call.
DrainState(n) ==
  IF n = 0 THEN "fulfilled"
  ELSE IF writeQueue[n].st = "running" THEN "pending"
  ELSE writeQueue[n].st

AllSettled(n) == \A i \in 1..n : Settled(writeQueue[i])

\* C15: the handle of a drain is fulfilled once every operation chained
\* before the call has settled, fulfilled or rejected, and not before.
DrainResolves ==
  \A n \in drained : DrainState(n) = "fulfilled" <=> AllSettled(n)

\* C15, amended: the handle of a drain settles exactly when every operation
\* chained before the call has settled; it is fulfilled when all of them
\* are fulfilled and is rejected, with the error of the first failed write,
\* when one of them is rejected.
DrainSettles ==
  \A n \in drained :
    /\ DrainState(n) # "pending" <=> AllSettled(n)
    /\ DrainState(n) = "fulfilled" <=> \A i \in 1..n : writeQueue[i].st = "fulfilled"
    /\ DrainState(n) = "rejected" =>
         \E i \in 1..n :
           /\ writeQueue[i].st = "rejected" /\ writeQueue[i].err = i
           /\ \A j \in 1..(i - 1) : writeQueue[j].st = "fulfilled"
           /\ writeQueue[n].err = i

\* A drain called on a chain of three links is rejected with the error of
\* the second link, whose write failed after the first one succeeded.
DrainSettlesWitness ==
  /\ 3 \in drained
  /\ writeQueue[1].st = "fulfilled"
  /\ writeQueue[2].st = "rejected" /\ writeQueue[2].err = 2
  /\ DrainState(3) = "rejected"

\* The report writes the exit listener chained: those whose clear link a
\* run of the listener awaits.
ExitWrites ==
  {i \in Links : /\ writeQueue[i].kind = "writeStats"
                 /\ \E h \in 1..Len(exitHandlers) : exitHandlers[h].awaits = i + 1}

\* finalizeAtlasStats was never called but by the exit listener.
NoExplicitFinalize ==
  \A i \in Links : writeQueue[i].kind = "writeStats" => i \in ExitWrites

\* C16: at most one exit listener is registered, and at most one run of the
\* listener finalizes at a shutdown.
AtMostOneTrigger ==
  /\ exitListeners <= 1
  /\ Cardinality({h \in 1..Len(exitHandlers) : exitHandlers[h].st = "awaiting"}) <= 1

\* The state part of C17.
ExitArmed ==
  /\ (statsAccumulator # <<>> /\ ExitWrites = {}) =>
       (exitListeners = 1 /\ statsFilePath # NoPath)
  /\ \A i \in ExitWrites :
       LET ids == {id \in BundleIds : writeQueue[i].last[id] # NoBundle}
       IN  /\ ids # {}
           /\ Len(writeQueue[i].bundles) = Cardinality(ids)
           /\ \A id \in ids : \E k \in 1..Len(writeQueue[i].bundles) :
                writeQueue[i].bundles[k] = convertBundleToStats(writeQueue[i].last[id])

\* The step part of C17: the shutdown chains a report write, and the step
\* that completes the finalize of the exit listener finds the report
\* written and empties the accumulator.
ExitStep ==
  /\ (exitListeners > 0 /\ exitListeners' = 0 /\ statsAccumulator # <<>>) =>
       (\E i \in Links' \ Links :
          /\ writeQueue'[i].kind = "writeStats"
          /\ writeQueue'[i].path = statsPathOf(statsFilePath)
          /\ writeQueue'[i].called = ObjValues(statsAccumulator))
  /\ \A i \in ExitWrites :
       (writeQueue[i + 1].st = "pending" /\ writeQueue'[i + 1].st = "fulfilled") =>
         /\ fs[writeQueue[i].path] = ReportFile(writeQueue[i].bundles)
         /\ writeQueue[i].st = "fulfilled"
         /\ statsAccumulator' = <<>>

ExitNeverThrows ==
  \A h \in 1..Len(exitHandlers) :
    LET handler == exitHandlers[h] IN
    /\ handler.st # "threw"
    /\ (handler.st = "returned" /\ handler.awaits > 0) =>
         (handler.logged <=> writeQueue[handler.awaits].st = "rejected")
    /\ (handler.awaits > 0 /\ writeQueue[handler.awaits].st = "rejected") =>
         \A id \in BundleIds :
           writeQueue[handler.awaits - 1].last[id] # NoBundle =>
             ObjHas(statsAccumulator, id)

\* Both ways of failing: the report write of the listener's finalize
\* failed, or the queue had failed before the shutdown.
ExitNeverThrowsWitness ==
  \E h \in 1..Len(exitHandlers) :
    /\ exitHandlers[h].st = "returned" /\ exitHandlers[h].logged
    /\ statsAccumulator # <<>>
    /\ writeQueue[exitHandlers[h].awaits - 1].st = "rejected"
    /\ writeQueue[exitHandlers[h].awaits - 1].err = exitHandlers[h].awaits - 1

\* ------------------------------------------------------------------------
\* Validating and ensuring the log
\* ------------------------------------------------------------------------
\* The header of a file parses as a metadata record.
HasHeader(file) == file # NoFile /\ file[1].type = "metadata"

\* C19: a validateAtlasFile call fails with ATLAS_FILE_NOT_FOUND when the
\* file is absent; otherwise it succeeds under the override; otherwise, the
\* header being a metadata record, it fails with ATLAS_FILE_INCOMPATIBLE
\* exactly when the name or the version differs from the expected metadata
\* and succeeds when both match (line 1 having been read). The call leaves
\* the file as it is.
ValidateStep ==
  (Len(calls') = Len(calls) + 1 /\ calls'[Len(calls')].fn = "validateAtlasFile") =>
    LET call == calls'[Len(calls')]
        file == fs[call.path]
    IN  /\ fs' = fs
        /\ file = NoFile => call.result = "ATLAS_FILE_NOT_FOUND"
        /\ (file # NoFile /\ call.noValidation) => call.result = "ok"
        /\ (HasHeader(file) /\ ~call.noValidation /\ ~call.readFails) =>
             /\ call.result \in {"ok", "ATLAS_FILE_INCOMPATIBLE"}
             /\ call.result = "ATLAS_FILE_INCOMPATIBLE" <=>
                  (file[1].name # call.metadata.name \/ file[1].version # call.metadata.version)

ValidateDecides == [][ValidateStep]_vars

\* A header written by an older version was found incompatible.
ValidateDecidesWitness ==
  \E c \in 1..Len(calls) :
    /\ calls[c].fn = "validateAtlasFile"
    /\ calls[c].result = "ATLAS_FILE_INCOMPATIBLE"
    /\ calls[c].metadata.name = fs[calls[c].path][1].name
    /\ calls[c].metadata.version # fs[calls[c].path][1].version

\* Only one call was made, an ensureAtlasFileExist, and no append has begun.
EnsureAlone ==
  /\ Len(calls) = 1
  /\ calls[1].fn = "ensureAtlasFileExist"
  /\ \A i \in Links : writeQueue[i].st = "pending"

\* C20: an ensureAtlasFileExist that runs alone returns true and leaves the
\* file untouched when validation succeeds; it removes the file, writes
\* the fresh metadata line alone and returns false when validation fails
\* with ATLAS_FILE_NOT_FOUND or ATLAS_FILE_INCOMPATIBLE; it throws any other
\* failure of the validation with the file unmodified.
EnsureStep ==
  (EnsureAlone /\ EnsureAlone') =>
    LET call == calls[1]
        file == fs[call.path]
    IN  /\ (call.pc = "validate" /\ calls'[1].pc # "validate") =>
             \E noValidation \in BOOLEAN, readFails \in BOOLEAN :
               LET outcome == validateOutcome(file, getAtlasMetdata, noValidation, readFails)
               IN  /\ fs' = fs
                   /\ outcome = "ok" => (calls'[1].pc = "done" /\ calls'[1].result = "true")
                   /\ outcome \in {"ATLAS_FILE_NOT_FOUND", "ATLAS_FILE_INCOMPATIBLE"} =>
                        calls'[1].pc = "rm"
                   /\ outcome \notin {"ok", "ATLAS_FILE_NOT_FOUND", "ATLAS_FILE_INCOMPATIBLE"} =>
                        (calls'[1].pc = "done" /\ calls'[1].result = outcome)
        /\ (call.pc # "done" /\ calls'[1].pc = "done" /\ call.pc # "validate") =>
             /\ calls'[1].result = "false"
             /\ fs'[call.path] = FreshFile(getAtlasMetdata)
        /\ call.pc = "done" => calls' = calls

EnsureRecreates == [][EnsureStep]_vars

\* An ensureAtlasFileExist that found the log absent or incompatible has
\* returned false and the log is the fresh metadata line.
EnsureRecreatesWitness ==
  /\ EnsureAlone
  /\ calls[1].pc = "done" /\ calls[1].result = "false"
  /\ fs[LogPath] = FreshFile(getAtlasMetdata)

\* ------------------------------------------------------------------------
\* Key order of the stats maps
\* ------------------------------------------------------------------------
\* The three maps of a stats bundle.
StatsMaps(stats) == {stats.packages, stats.files, stats.assets}

KeyBefore(a, b) ==
  IF IsArrayIndex(a) /\ IsArrayIndex(b) THEN ToNumber(a) < ToNumber(b)
  ELSE IF IsArrayIndex(a) \/ IsArrayIndex(b) THEN IsArrayIndex(a)
  ELSE StrLess(a, b)

Reports ==
  {fs[p][1].bundles : p \in {q \in AllPaths : fs[q] # NoFile /\ fs[q][1].type = "report"}}

\* a = b or a < b by code units.
StrLessEq(a, b) == a = b \/ StrLess(a, b)

\* C11: the stats bundles of every report are in ascending order of
\* (platform, environment, entryPoint), each compared as plain strings.
ReportInCodeUnitOrder ==
  \A report \in Reports : \A k, l \in 1..Len(report) : k < l =>
    LET a == report[k]
        b == report[l]
    IN  IF a.platform # b.platform THEN StrLess(a.platform, b.platform)
        ELSE IF a.environment # b.environment THEN StrLess(a.environment, b.environment)
        ELSE StrLessEq(a.entryPoint, b.entryPoint)

\* C11, amended: the stats bundles of every report are in ascending order
\* of (platform, environment, entryPoint), each compared by localeCompare,
\* whatever the order they were accumulated in.
ReportInLocaleOrder ==
  \A report \in Reports : \A k, l \in 1..Len(report) : k < l =>
    LET a == report[k]
        b == report[l]
    IN  IF a.platform # b.platform THEN localeCompare(a.platform, b.platform) < 0
        ELSE IF a.environment # b.environment
             THEN localeCompare(a.environment, b.environment) < 0
        ELSE localeCompare(a.entryPoint, b.entryPoint) <= 0

\* A report of two bundles that were accumulated in the other order.
ReportInLocaleOrderWitness ==
  \E i \in Links :
    /\ writeQueue[i].kind = "writeStats" /\ writeQueue[i].st = "fulfilled"
    /\ Len(writeQueue[i].called) = 2
    /\ writeQueue[i].bundles = <<writeQueue[i].called[2], writeQueue[i].called[1]>>
    /\ writeQueue[i].called[1].platform = Ios
    /\ writeQueue[i].called[2].platform = Android
    /\ writeQueue[i].bundles \in Reports

\* The report of the bundles last accumulated under each id, had they been
\* accumulated in ascending order of their ids.
CanonicalReport(last) ==
  sortBundles(
    (IF last[<<"1">>] # NoBundle THEN <<convertBundleToStats(last[<<"1">>])>> ELSE <<>>)
      \o (IF last[<<"2">>] # NoBundle THEN <<convertBundleToStats(last[<<"2">>])>> ELSE <<>>))

DistinctTuples(bundles) ==
  \A k, l \in 1..Len(bundles) : k # l =>
    \/ bundles[k].platform # bundles[l].platform
    \/ bundles[k].environment # bundles[l].environment
    \/ bundles[k].entryPoint # bundles[l].entryPoint

EmptyFinalize ==
  \A i \in Links :
    (writeQueue[i].kind = "writeStats" /\ writeQueue[i].called = <<>>) =>
      /\ writeQueue[i].bundles = <<>>
      /\ \A j \in {i, i + 1} : writeQueue[j].st = "rejected" =>
           \E k \in 1..i : writeQueue[k].err = k /\ writeQueue[j].err = k
      /\ (/\ writeQueue[i].st = "fulfilled"
          /\ \A j \in Links : (j > i /\ writeQueue[j].kind = "writeStats") =>
               writeQueue[j].st \in {"pending", "running", "rejected"}) =>
           fs[writeQueue[i].path] = <<[type |-> "report", bundles |-> <<>>]>>

\* The first call ever made was a finalize: the empty report is on disk and
\* the handle has resolved.
EmptyFinalizeWitness ==
  /\ Len(writeQueue) >= 2
  /\ writeQueue[1].kind = "writeStats" /\ writeQueue[1].called = <<>>
  /\ writeQueue[2].st = "fulfilled"
  /\ fs[writeQueue[1].path] = <<[type |-> "report", bundles |-> <<>>]>>
  /\ statsAccumulator = <<>>

\* ------------------------------------------------------------------------
\* Reading entries
\* ------------------------------------------------------------------------
\* Every module of the bundle is stored under its absolute path.
KeyedByAbsolutePath(bundle) ==
  \A k \in 1..Len(bundle.modules) :
    bundle.modules[k].key = bundle.modules[k].value.absolutePath

\* Two module records have the same properties.
SameModule(a, b) ==
  \A key \in {"absolutePath", "relativePath", "size", "package"} :
    Prop(a, key) = Prop(b, key)

\* The bundle read back is the entry, under the id `id`.
SameBundle(bundle, entry, id) ==
  /\ bundle.id = id
  /\ bundle.platform = entry.platform
  /\ bundle.projectRoot = entry.projectRoot
  /\ bundle.sharedRoot = entry.sharedRoot
  /\ bundle.entryPoint = entry.entryPoint
  /\ bundle.environment = entry.environment
  /\ bundle.transformOptions = entry.transformOptions
  /\ bundle.serializeOptions = entry.serializeOptions
  /\ Len(bundle.runtimeModules) = Len(entry.runtimeModules)
  /\ \A k \in 1..Len(entry.runtimeModules) :
       SameModule(bundle.runtimeModules[k], entry.runtimeModules[k])
  /\ Len(bundle.modules) = Len(entry.modules)
  /\ \A k \in 1..Len(entry.modules) :
       /\ bundle.modules[k].key = entry.modules[k].key
       /\ SameModule(bundle.modules[k].value, entry.modules[k].value)

\* C21: a read of line L that was called once the append of a bundle keyed
\* by absolute path had completed on line L returns a bundle with the id L,
\* the strings, runtime modules and options of the appended bundle, and a
\* modules mapping with the same keys and values in the same order.
ReadRoundTrip ==
  \A r \in 1..Len(reads) :
    LET call == reads[r]
        L == call.line.whole
    IN  (/\ call.pc = "done"
         /\ IsLineNumber(call.line) /\ L <= call.lines
         /\ KeyedByAbsolutePath(Appended(call.path)[L - 1].entry))
        => /\ call.result.error = "none"
           /\ SameBundle(call.result.bundle, Appended(call.path)[L - 1].entry, String(L))

\* Line 3 was read back after two different bundles had been appended: the
\* bundle has a quote in its entry point, a module without a package
\* followed by one of a package, and a runtime module.
ReadRoundTripWitness ==
  \E r \in 1..Len(reads) :
    /\ reads[r].pc = "done" /\ reads[r].line = Num(3) /\ reads[r].lines = 3
    /\ reads[r].result.error = "none"
    /\ reads[r].result.bundle.id = <<"3">>
    /\ reads[r].result.bundle.entryPoint = <<"a", QUOTE, "b">>
    /\ Len(reads[r].result.bundle.modules) = 2
    /\ Prop(reads[r].result.bundle.modules[1].value, "package") = Undefined
    /\ Prop(reads[r].result.bundle.modules[2].value, "package") = React
    /\ Len(reads[r].result.bundle.runtimeModules) = 1
    /\ Appended(LogPath)[1].entry # Appended(LogPath)[2].entry

\* The number is 1 or less.
AtMostOne(number) ==
  ~number.nan /\ (number.whole < 1 \/ (number.whole = 1 /\ ~number.frac))

\* C22: a getBundle call whose id is not a number, or is a number of 1 or
\* less, fails with the assertion error without reading; every other call
\* hands readAtlasEntry an integer greater than 1.
InvalidIdRejected ==
  \A r \in 1..Len(reads) :
    LET call == reads[r]
    IN  call.fn = "getBundle" =>
          /\ (Number(call.id).nan \/ AtMostOne(Number(call.id))) =>
               (call.pc = "done" /\ call.result.error = "AssertionError")
          /\ call.result.error # "AssertionError" => IsLineNumber(call.line)

\* A step of a read or of a listing leaves the chain, the accumulator and
\* the files as they are.
ReadFrameStep ==
  (reads' # reads \/ listed' # listed) =>
    /\ writeQueue' = writeQueue
    /\ statsAccumulator' = statsAccumulator
    /\ fs' = fs

\* A read can be called, and a read that was called can complete, whatever
\* the state of the chain.
ReadsNeverWait ==
  /\ Len(reads) < MaxReads => ENABLED ReadEntry(LogPath, 2)
  /\ \A r \in 1..Len(reads) : reads[r].pc = "reading" => CanComplete(r)

\* C23: listing and reading never change the chain, the accumulator or a
\* file, and they can start and complete whatever the state of the chain:
\* with writes pending, with a write in progress, or after a write failed.
ReadsBypassQueue == [][ReadFrameStep]_vars /\ []ReadsNeverWait

\* A read returned the bundle of line 2 while a later write was in progress
\* and another was pending; that write has failed since, the accumulator is
\* not empty, and the log can be listed.
ReadsBypassQueueWitness ==
  /\ Len(reads) = 1
  /\ reads[1].pc = "done" /\ reads[1].result.error = "none"
  /\ reads[1].during = {"fulfilled", "running", "pending"}
  /\ statsAccumulator # <<>>
  /\ \E i \in Links : writeQueue[i].st = "rejected"
  /\ Len(listed) = 1
  /\ ENABLED listBundles(LogPath)

\* ------------------------------------------------------------------------
\* Progress of the chain
\* ------------------------------------------------------------------------
\* Link i was chained; link i has settled.
Chained(i) == i <= Len(writeQueue)
SettledAt(i) == i <= Len(writeQueue) /\ Settled(writeQueue[i])

\* The handle of a drain called on a chain of n links has settled.
DrainSettledAt(n) == n \in drained /\ DrainState(n) # "pending"

\* While the write of a link is in progress, no later link has begun its
\* body or settled.
StalledBlocks ==
  \A i \in Links : writeQueue[i].st = "running" =>
    \A j \in (i + 1)..Len(writeQueue) : ~Began(j) /\ writeQueue[j].st = "pending"

\* C24: when every write that is issued completes, every link of the chain
\* (the handle of an append, the two links of a finalize) and the handle of
\* every drain eventually settles; and as long as the write of a link has
\* not completed, no link chained after it begins.
ChainProgress ==
  /\ \A i \in 1..MaxOps : Chained(i) ~> SettledAt(i)
  /\ \A n \in 0..MaxOps : (n \in drained) ~> DrainSettledAt(n)
  /\ []StalledBlocks

\* An append and a finalize were chained before a drain, and all three
\* links and the handle of the drain are fulfilled.
ChainProgressWitness ==
  /\ Len(writeQueue) = 3
  /\ writeQueue[1].kind = "append" /\ writeQueue[3].kind = "clear"
  /\ \A i \in Links : writeQueue[i].st = "fulfilled"
  /\ 3 \in drained
  /\ DrainState(3) = "fulfilled"

\* ------------------------------------------------------------------------
\* What a finalize clears
\* ------------------------------------------------------------------------
\* In the step in which the clear link of a finalize runs, every stats
\* bundle the accumulator holds is in the report that finalize wrote.
ClearReportedStep ==
  \A i \in 2..Len(writeQueue) :
    (/\ writeQueue[i].kind = "clear"
     /\ writeQueue[i].st = "pending" /\ writeQueue'[i].st = "fulfilled")
    => \A k \in 1..Len(statsAccumulator) :
         \E l \in 1..Len(writeQueue[i - 1].bundles) :
           writeQueue[i - 1].bundles[l] = statsAccumulator[k].value

\* C25: every stats bundle the clear step of a finalize removes from the
\* accumulator was in the report that finalize wrote, also when bundles are
\* accumulated between the call of the finalize and its clear step.
NoBundleDropped == [][ClearReportedStep]_vars

\* ------------------------------------------------------------------------
\* The paths of the report
\* ------------------------------------------------------------------------
\* The report of a finalize goes to a path other than the log it was called
\* with, and the step that writes it leaves that log as it is.
ReportBesideLogStep ==
  \A i \in Links : writeQueue[i].kind = "writeStats" =>
    /\ writeQueue[i].path # writeQueue[i].log
    /\ (writeQueue[i].st = "running" /\ writeQueue'[i].st = "fulfilled") =>
         fs'[writeQueue[i].log] = fs[writeQueue[i].log]

\* C26: for every log path finalizeAtlasStats is called with, a custom one
\* whose name does not end in atlas.jsonl included, the report is written
\* to another path and the log is neither overwritten nor modified.
ReportBesideLog == [][ReportBesideLogStep]_vars

\* The bundles a finalize captures, and the bundles its clear link removes,
\* were accumulated with the path the finalize was called with.
ReportOfOnePathStep ==
  /\ \A i \in Links : writeQueue[i].kind = "writeStats" =>
       \A id \in BundleIds :
         writeQueue[i].last[id] # NoBundle => writeQueue[i].paths[id] = writeQueue[i].log
  /\ \A i \in Links :
       (/\ writeQueue[i].kind = "clear"
        /\ writeQueue[i].st = "pending" /\ writeQueue'[i].st = "fulfilled")
       => \A id \in BundleIds :
            accumulated[id] # NoBundle => accumulatedPath[id] = writeQueue[i].log

\* C27: the report of a finalize, called explicitly or by the exit
\* listener, holds only stats bundles accumulated with the path the
\* finalize was called with, and its clear removes no other bundle.
ReportOfOnePath == [][ReportOfOnePathStep]_vars

====
